---- MODULE Spec2Model ----
(***************************************************************************)
(* Thread/session state persistence of lab07c:                             *)
(*   - state_persistence.py: InMemoryStateBackend and SQLiteStateBackend,  *)
(*     driven here side by side by the same sequence of calls;             *)
(*   - sqlite_checkpointer.py: SQLiteCheckpointSaver (second part).        *)
(* Time is a tick counter: datetime.now() has tick resolution, SQLite's    *)
(* CURRENT_TIMESTAMP has one-second resolution (TicksPerSecond ticks).     *)
(***************************************************************************)
EXTENDS Integers, Sequences, FiniteSets, TLC

\* ---------------------------------------------------------------- bounds
MaxTime == 3
TicksPerSecond == 2
TicksPerDay == 2
MaxSaves == 2
MaxSaverTime == 1
MaxPuts == 2

Threads == {"t1", "t2"}
Users == {"", "alice", "bob"}
Payloads == {"p1", "pTuple"}
Days == {0, 1}
Limits == {0, 1}
None == "None"

VARIABLES
    now,     \* the clock, in ticks
    nSaves,  \* save_checkpoint calls made so far
    mem,     \* the InMemoryStateBackend: [checkpoints, metadata]
    sql,     \* the SQLiteStateBackend's database: [metadata, checkpoints]
    last,    \* the last call made on the two backends, with what each returned
    hist,    \* per thread: what the callers have saved (history, not program state)
    savNow,  \* the clock of the checkpoint savers, in ticks
    nPuts,   \* put calls made so far
    db,      \* the checkpoint savers' database file: [checkpoints]
    slast,   \* the last call made on a SQLiteCheckpointSaver, with what it returned
    puts,    \* per checkpoint key: the latest put made for it (history)
    menv,    \* the environment thread_config reads: [manage, conn]
    mcfg,    \* thread_config.config: <<>> before it is loaded, <<ThreadConfig>> after
    mgr,     \* the ThreadStateManager: [status, backend, db_path, checkpointer]
    cenv,    \* the environment snowflake_connection reads: [via, account]
    cinst,   \* _connection_instance: <<>> for None, else <<[connection, account]>>
    nConnects, \* connections snowflake.connector.connect has established so far
    clast,   \* the last call made on snowflake_connection, with its outcome
    closed   \* the connections (by number) on which close() has been called

bvars == <<now, nSaves, mem, sql, last, hist>>
svars == <<savNow, nPuts, db, slast, puts>>
mvars == <<menv, mcfg, mgr>>
\* The variables of the parts other than the state backends and the savers.
cvars == <<cenv, cinst, nConnects, clast, closed>>
xvars == <<mvars, cvars>>
vars == <<now, nSaves, mem, sql, last, hist, savNow, nPuts, db, slast, puts,
          menv, mcfg, mgr, cenv, cinst, nConnects, clast, closed>>

\* ------------------------------------------------------- time and codecs

\* SQLite's CURRENT_TIMESTAMP: the clock truncated to whole seconds.
CurrentTimestamp(tm) == tm \div TicksPerSecond

\* json.dumps: a tuple is written as a JSON array.
JsonDumps(c) ==
    <<"json", IF c = "pTuple" THEN "pList" ELSE IF c = "mTuple" THEN "mList" ELSE c>>

\* json.loads: what the text holds (a JSON array is read as a list).
JsonLoads(txt) == txt[2]

\* ------------------------------------------------ InMemoryStateBackend

\* ThreadMetadata(thread_id, created_at, last_updated, user_id, ..., message_count = 0)
ThreadMetadata(t, u, created, updated, count) ==
    [thread_id |-> t, user_id |-> u, created_at |-> created,
     last_updated |-> updated, message_count |-> count]

\* InMemoryStateBackend.__init__: two empty dicts. metadata is kept as the
\* dict's values in insertion order (list_threads sorts them stably).
MemInit == [checkpoints |-> <<>>, metadata |-> <<>>]

\* thread_id in self.metadata
MetaHas(md, t) == \E i \in 1..Len(md) : md[i].thread_id = t

\* self.metadata.get(thread_id): the record, or None
MetaGet(md, t) ==
    IF MetaHas(md, t) THEN md[CHOOSE i \in 1..Len(md) : md[i].thread_id = t]
    ELSE None

\* self.checkpoints.get(thread_id)
CheckpointsGet(cps, t) == IF t \in DOMAIN cps THEN cps[t] ELSE None

\* self.checkpoints[thread_id] = checkpoint
CheckpointsSet(cps, t, c) ==
    [x \in (DOMAIN cps) \cup {t} |-> IF x = t THEN c ELSE cps[x]]

\* dict.pop(thread_id, None) on checkpoints
CheckpointsPop(cps, t) == [x \in (DOMAIN cps) \ {t} |-> cps[x]]

\* dict.pop(thread_id, None) on metadata
MetaPop(md, t) == SelectSeq(md, LAMBDA r : r.thread_id # t)

Mem_save_checkpoint(m, t, c, u, tm) ==
    LET cps == CheckpointsSet(m.checkpoints, t, c)
        md  == IF ~MetaHas(m.metadata, t)
               THEN Append(m.metadata, ThreadMetadata(t, u, tm, tm, 0))
               ELSE [i \in 1..Len(m.metadata) |->
                       IF m.metadata[i].thread_id = t
                       THEN [m.metadata[i] EXCEPT
                               !.last_updated = tm,
                               !.message_count = @ + 1,
                               !.user_id = IF u # "" /\ @ = "" THEN u ELSE @]
                       ELSE m.metadata[i]]
    IN [state |-> [checkpoints |-> cps, metadata |-> md], ret |-> TRUE]

Mem_load_checkpoint(m, t, u) ==
    IF u # "" /\ MetaHas(m.metadata, t) /\ MetaGet(m.metadata, t).user_id # u
    THEN None
    ELSE CheckpointsGet(m.checkpoints, t)

\* list.sort(key=last_updated, reverse=True): stable, equal keys keep their order.
RECURSIVE SortByLastUpdatedDesc(_)
SortByLastUpdatedDesc(s) ==
    IF s = <<>> THEN <<>>
    ELSE LET i == CHOOSE k \in 1..Len(s) :
                    /\ \A j \in 1..Len(s) : s[j].last_updated <= s[k].last_updated
                    /\ \A j \in 1..(k - 1) : s[j].last_updated < s[k].last_updated
             rest == [j \in 1..(Len(s) - 1) |-> IF j < i THEN s[j] ELSE s[j + 1]]
         IN <<s[i]>> \o SortByLastUpdatedDesc(rest)

\* Mutant: the limit is ignored.
TakeAll(s, n) == s

\* threads[:limit] and LIMIT ?, for limit >= 0
Take(s, n) == SubSeq(s, 1, IF n < Len(s) THEN n ELSE Len(s))

Mem_list_threads(m, u, limit) ==
    LET threads == IF u # "" THEN SelectSeq(m.metadata, LAMBDA r : r.user_id = u)
                   ELSE m.metadata
    IN Take(SortByLastUpdatedDesc(threads), limit)

Mem_delete_thread(m, t, u) ==
    IF u # "" /\ MetaHas(m.metadata, t) /\ MetaGet(m.metadata, t).user_id # u
    THEN [state |-> m, ret |-> FALSE]
    ELSE [state |-> [checkpoints |-> CheckpointsPop(m.checkpoints, t),
                     metadata |-> MetaPop(m.metadata, t)],
          ret |-> TRUE]

\* for thread_id in old_threads: await self.delete_thread(thread_id, user_id)
RECURSIVE MemDeleteAll(_, _, _)
MemDeleteAll(m, tids, u) ==
    IF tids = <<>> THEN m
    ELSE MemDeleteAll(Mem_delete_thread(m, Head(tids), u).state, Tail(tids), u)

Mem_cleanup_old_threads(m, days, u, tm) ==
    LET cutoff_date == tm - days * TicksPerDay
        old == SelectSeq(m.metadata,
                         LAMBDA r : r.last_updated < cutoff_date
                                    /\ (u # "" => r.user_id = u))
        old_threads == [i \in 1..Len(old) |-> old[i].thread_id]
    IN [state |-> MemDeleteAll(m, old_threads, u), ret |-> Len(old_threads)]

\* --------------------------------------------------- SQLiteStateBackend

\* _init_database: the two tables, empty. Each table is its set of rows.
SqlInit == [metadata |-> {}, checkpoints |-> {}]

\* Mutant: the metadata table without its PRIMARY KEY, a plain INSERT.
InsertMetadataNoKey(rows, new) == rows \cup {new}

\* INSERT OR REPLACE INTO ..._metadata: thread_id is the PRIMARY KEY, so the
\* row holding the same thread_id is deleted before the new row goes in.
InsertOrReplaceMetadata(rows, new) ==
    {r \in rows : r.thread_id # new.thread_id} \cup {new}

\* Mutant: the checkpoint row replaces the thread's earlier rows.
ReplaceCheckpoint(rows, row) ==
    {r \in rows : r.thread_id # row.thread_id} \cup {row}

\* INSERT INTO ..._checkpoints, once the key is known to be free.
InsertCheckpoint(rows, row) == rows \cup {row}

\* Mutant: a connection that keeps the statements executed before an exception.
ConnectionExitCommits(before, staged, raised) == staged

\* "with sqlite3.connect(self.db_path) as conn": the statements executed in
\* the block form one transaction, which the context manager commits when
\* the block ends normally and rolls back when it ends with an exception.
ConnectionExit(before, staged, raised) == IF raised THEN before ELSE staged

SQLite_save_checkpoint(s, t, c, u, tm) ==
    LET checkpoint_id == tm
        checkpoint_json == JsonDumps(c)
        old == {r \in s.metadata : r.thread_id = t}
        count == IF old = {} THEN 1
                 ELSE (CHOOSE r \in old : TRUE).message_count + 1
        meta == ThreadMetadata(t, u, CurrentTimestamp(tm), tm, count)
        row == [thread_id |-> t, user_id |-> u, checkpoint_id |-> checkpoint_id,
                timestamp |-> CurrentTimestamp(tm),
                checkpoint_data |-> checkpoint_json]
        \* the first statement: the metadata row is written
        afterMeta == [s EXCEPT !.metadata = InsertOrReplaceMetadata(s.metadata, meta)]
        \* PRIMARY KEY (thread_id, checkpoint_id): the second statement raises
        \* IntegrityError when the key is taken
        raised == \E r \in s.checkpoints :
                     r.thread_id = t /\ r.checkpoint_id = checkpoint_id
        staged == IF raised THEN afterMeta
                  ELSE [afterMeta EXCEPT
                          !.checkpoints = InsertCheckpoint(s.checkpoints, row)]
    IN [state |-> ConnectionExit(s, staged, raised), ret |-> ~raised]

\* The rows ORDER BY timestamp DESC LIMIT 1 may deliver: SQL leaves the order
\* of rows with equal timestamp open.
LatestRows(rows) ==
    {r \in rows : \A q \in rows : q.timestamp <= r.timestamp}

\* The set of values load_checkpoint may return.
SQLite_load_checkpoint(s, t, u) ==
    LET rows == {r \in s.checkpoints :
                    r.thread_id = t /\ (u # "" => r.user_id = u)}
    IN IF rows = {} THEN {None}
       ELSE {JsonLoads(r.checkpoint_data) : r \in LatestRows(rows)}

\* All orders of a set of rows by last_updated descending.
OrderingsDesc(rows) ==
    {s \in [1..Cardinality(rows) -> rows] :
        /\ \A i, j \in 1..Cardinality(rows) : i # j => s[i] # s[j]
        /\ \A i, j \in 1..Cardinality(rows) :
              i < j => s[i].last_updated >= s[j].last_updated}

\* The set of lists list_threads may return (LIMIT ? with limit >= 0).
SQLite_list_threads(s, u, limit) ==
    LET rows == {r \in s.metadata : u # "" => r.user_id = u}
    IN {Take(o, limit) : o \in OrderingsDesc(rows)}

\* Mutant: only the metadata row is deleted, the checkpoints stay.
DeleteMetadataOnly(s, t, u) ==
    [state |-> [checkpoints |-> s.checkpoints,
                metadata |-> {r \in s.metadata :
                                ~(r.thread_id = t /\ (u # "" => r.user_id = u))}],
     ret |-> TRUE]

SQLite_delete_thread(s, t, u) ==
    IF u # ""
    THEN [state |->
            [checkpoints |-> {r \in s.checkpoints :
                                ~(r.thread_id = t /\ r.user_id = u)},
             metadata |-> {r \in s.metadata :
                                ~(r.thread_id = t /\ r.user_id = u)}],
          ret |-> TRUE]
    ELSE [state |->
            [checkpoints |-> {r \in s.checkpoints : r.thread_id # t},
             metadata |-> {r \in s.metadata : r.thread_id # t}],
          ret |-> TRUE]

\* for thread_id in old_threads: await self.delete_thread(thread_id, user_id)
RECURSIVE SqlDeleteAll(_, _, _)
SqlDeleteAll(s, tids, u) ==
    IF tids = <<>> THEN s
    ELSE SqlDeleteAll(SQLite_delete_thread(s, Head(tids), u).state, Tail(tids), u)

\* The thread_id column of the selected rows, one entry per row.
RECURSIVE ThreadIdsOf(_)
ThreadIdsOf(rows) ==
    IF rows = {} THEN <<>>
    ELSE LET r == CHOOSE x \in rows : TRUE
         IN <<r.thread_id>> \o ThreadIdsOf(rows \ {r})

SQLite_cleanup_old_threads(s, days, u, tm) ==
    LET cutoff_date == tm - days * TicksPerDay
        old == {r \in s.metadata :
                   r.last_updated < cutoff_date /\ (u # "" => r.user_id = u)}
        old_threads == ThreadIdsOf(old)
    IN [state |-> SqlDeleteAll(s, old_threads, u), ret |-> Len(old_threads)]

\* ------------------------------------------------------------- actions

\* The thread ids holding a metadata record in each backend.
MemThreads(m) == {m.metadata[i].thread_id : i \in 1..Len(m.metadata)}
SqlThreads(s) == {r.thread_id : r \in s.metadata}

\* A call as the caller sees it; for a delete_thread or cleanup_old_threads
\* call, pre is the thread ids stored before it.
Call(op, t, u, arg, memRet, sqlRet) ==
    [op |-> op, t |-> t, u |-> u, arg |-> arg, memRet |-> memRet, sqlRet |-> sqlRet,
     pre |-> IF op \in {"delete", "cleanup", "api_delete"}
             THEN [mem |-> MemThreads(mem), sql |-> SqlThreads(sql)]
             ELSE [mem |-> {}, sql |-> {}]]

\* hist[t].memC, hist[t].sqlC: the checkpoint of the latest successful save on t
\* in that backend, None once a delete_thread / cleanup_old_threads call has
\* removed a checkpoint of t from that backend (a call that removes nothing of
\* t leaves the backend's checkpoints of t as they were). hist[t].saved: the
\* <<user_id, checkpoint>> pairs saved on t since the in-memory backend last
\* held no checkpoint of t.
HistInit == [t \in Threads |-> [memC |-> None, sqlC |-> None, saved |-> {}]]

SqlCheckpointsOf(s, t) == {r \in s.checkpoints : r.thread_id = t}

\* The history after a delete_thread / cleanup_old_threads call that took the
\* backends from (m, s) to (m2, s2).
HistForget(h, m, s, m2, s2) ==
    [t \in Threads |->
        [memC |-> IF t \in DOMAIN m2.checkpoints THEN h[t].memC ELSE None,
         sqlC |-> IF SqlCheckpointsOf(s2, t) = SqlCheckpointsOf(s, t)
                  THEN h[t].sqlC ELSE None,
         saved |-> IF t \in DOMAIN m2.checkpoints THEN h[t].saved ELSE {}]]

BackendInit ==
    /\ now = 0
    /\ nSaves = 0
    /\ mem = MemInit
    /\ sql = SqlInit
    /\ last = Call("init", "-", "", 0, None, None)
    /\ hist = HistInit

\* The clock advances between calls.
Tick ==
    /\ now < MaxTime
    /\ now' = now + 1
    /\ last' = Call("tick", "-", "", 0, None, None)
    /\ UNCHANGED <<nSaves, mem, sql, hist>>
    /\ UNCHANGED <<svars, xvars>>

SaveCheckpoint(t, c, u) ==
    /\ nSaves < MaxSaves
    /\ nSaves' = nSaves + 1
    /\ LET m == Mem_save_checkpoint(mem, t, c, u, now)
           s == SQLite_save_checkpoint(sql, t, c, u, now)
       IN /\ mem' = m.state
          /\ sql' = s.state
          /\ last' = Call("save", t, u, c, m.ret, s.ret)
          /\ hist' = [hist EXCEPT ![t] =
                        [memC |-> c, sqlC |-> IF s.ret THEN c ELSE @.sqlC,
                         saved |-> @.saved \cup {<<u, c>>}]]
    /\ UNCHANGED now
    /\ UNCHANGED <<svars, xvars>>

LoadCheckpoint(t, u) ==
    /\ \E r \in SQLite_load_checkpoint(sql, t, u) :
          last' = Call("load", t, u, 0, Mem_load_checkpoint(mem, t, u), r)
    /\ UNCHANGED <<now, nSaves, mem, sql, hist>>
    /\ UNCHANGED <<svars, xvars>>

ListThreads(u, limit) ==
    /\ \E r \in SQLite_list_threads(sql, u, limit) :
          last' = Call("list", "-", u, limit, Mem_list_threads(mem, u, limit), r)
    /\ UNCHANGED <<now, nSaves, mem, sql, hist>>
    /\ UNCHANGED <<svars, xvars>>

DeleteThread(t, u) ==
    /\ LET m == Mem_delete_thread(mem, t, u)
           s == SQLite_delete_thread(sql, t, u)
       IN /\ mem' = m.state
          /\ sql' = s.state
          /\ last' = Call("delete", t, u, 0, m.ret, s.ret)
    /\ hist' = HistForget(hist, mem, sql, mem', sql')
    /\ UNCHANGED <<now, nSaves>>
    /\ UNCHANGED <<svars, xvars>>

CleanupOldThreads(days, u) ==
    /\ LET m == Mem_cleanup_old_threads(mem, days, u, now)
           s == SQLite_cleanup_old_threads(sql, days, u, now)
       IN /\ mem' = m.state
          /\ sql' = s.state
          /\ last' = Call("cleanup", "-", u, days, m.ret, s.ret)
    /\ hist' = HistForget(hist, mem, sql, mem', sql')
    /\ UNCHANGED <<now, nSaves>>
    /\ UNCHANGED <<svars, xvars>>

\* ------------------------------------------------------- thread_api

\* ThreadStateManager.get_threads: limit: int = 100
DefaultLimit == 100
\* GET /threads: limit (Query ge=1), include_empty
QueryLimits == {1, 2}

\* An integer bound to a TEXT column's comparison is converted to text.
IntText(n) == IF n = 1 THEN "1" ELSE IF n = 2 THEN "2" ELSE "n"

\* state_manager.get_threads(n), as thread_api calls it: the one positional
\* argument is get_threads' first parameter, user_id, and limit keeps its
\* default. In memory no metadata's user_id, a str, equals the int n.
Mem_get_threads_positional(m, n) ==
    IF n # 0
    THEN Take(SortByLastUpdatedDesc(SelectSeq(m.metadata, LAMBDA r : FALSE)), DefaultLimit)
    ELSE Mem_list_threads(m, "", DefaultLimit)

SQLite_get_threads_positional(s, n) ==
    IF n # 0
    THEN SQLite_list_threads(s, IntText(n), DefaultLimit)
    ELSE SQLite_list_threads(s, "", DefaultLimit)

\* ThreadResponse built from a ThreadMetadata
ThreadResponse(t) ==
    [thread_id |-> t.thread_id, created_at |-> t.created_at,
     last_updated |-> t.last_updated, message_count |-> t.message_count]

\* GET /threads, from what get_threads returned
Api_list_threads(threads, include_empty) ==
    LET kept == IF ~include_empty
                THEN SelectSeq(threads, LAMBDA t : t.message_count > 0)
                ELSE threads
        thread_responses == [i \in 1..Len(kept) |-> ThreadResponse(kept[i])]
    IN [status |-> 200, threads |-> thread_responses, total |-> Len(thread_responses)]

\* DELETE /threads/{thread_id}, from what state_manager.delete_thread returned
Api_delete_thread(success) ==
    IF ~success
    THEN [status |-> 404, body |-> "not found or could not be deleted"]
    ELSE [status |-> 200, body |-> "deleted"]

ApiListThreads(limit, include_empty) ==
    /\ \E r \in SQLite_get_threads_positional(sql, limit) :
          last' = Call("api_list", "-", "", [limit |-> limit, include_empty |-> include_empty],
                       Api_list_threads(Mem_get_threads_positional(mem, limit), include_empty),
                       Api_list_threads(r, include_empty))
    /\ UNCHANGED <<now, nSaves, mem, sql, hist>>
    /\ UNCHANGED <<svars, xvars>>

\* state_manager.delete_thread(thread_id): user_id keeps its default, ""
ApiDeleteThread(t) ==
    /\ LET m == Mem_delete_thread(mem, t, "")
           s == SQLite_delete_thread(sql, t, "")
       IN /\ mem' = m.state
          /\ sql' = s.state
          /\ last' = Call("api_delete", t, "", 0, Api_delete_thread(m.ret),
                          Api_delete_thread(s.ret))
    /\ hist' = HistForget(hist, mem, sql, mem', sql')
    /\ UNCHANGED <<now, nSaves>>
    /\ UNCHANGED <<svars, xvars>>

BackendNext ==
    \/ Tick
    \/ \E limit \in QueryLimits, include_empty \in BOOLEAN :
          ApiListThreads(limit, include_empty)
    \/ \E t \in Threads : ApiDeleteThread(t)
    \/ \E t \in Threads, c \in Payloads, u \in Users : SaveCheckpoint(t, c, u)
    \/ \E t \in Threads, u \in Users : LoadCheckpoint(t, u)
    \/ \E u \in Users, limit \in Limits : ListThreads(u, limit)
    \/ \E t \in Threads, u \in Users : DeleteThread(t, u)
    \/ \E days \in Days, u \in Users : CleanupOldThreads(days, u)

\* ----------------------------------------------- SQLiteCheckpointSaver

CheckpointIds == {"id1", "id2"}
SaverUsers == {"alice", "bob"}
\* The (checkpoint, metadata) pairs a put is given.
Contents == {[checkpoint |-> "k1", metadata |-> "m1"],
             [checkpoint |-> "k2", metadata |-> "mTuple"]}

\* pickle.dumps / pickle.loads
PickleDumps(c) == <<"pickle", c>>
PickleLoads(b) == b[2]

\* config["configurable"]: thread_id, checkpoint_ns and checkpoint_id (None: not given)
Config(t, ns, id) == [thread_id |-> t, checkpoint_ns |-> ns, checkpoint_id |-> id]

\* What the callers put: the config given (its checkpoint_id names the parent)
\* and the id of the checkpoint. id2 is put as the successor of id1.
PutTargets ==
    {[config |-> Config("t1", "", None), id |-> "id1"],
     [config |-> Config("t1", "", "id1"), id |-> "id2"],
     [config |-> Config("t1", "ns", None), id |-> "id1"],
     [config |-> Config("t2", "", None), id |-> "id1"]}

\* The thread and namespace of the configs the callers read with.
ReadTargets == {<<"t1", "">>, <<"t1", "ns">>, <<"t2", "">>}

\* The configs list() is called with: none, or a thread and its namespace.
ListConfigs == {Config(None, None, None), Config("t1", "", None)}

\* _setup_database: the checkpoints and checkpoint_writes tables, empty
DbInit == [checkpoints |-> {}, writes |-> {}]

\* PRIMARY KEY (thread_id, checkpoint_ns, checkpoint_id)
KeyOf(r) == <<r.thread_id, r.checkpoint_ns, r.checkpoint_id>>

\* Mutant: the checkpoints table without its PRIMARY KEY, a plain INSERT.
InsertRowNoKey(rows, new) == rows \cup {new}

\* INSERT OR REPLACE INTO checkpoints: the row holding the same key is deleted
\* before the new row goes in.
InsertOrReplaceRow(rows, new) ==
    {r \in rows : KeyOf(r) # KeyOf(new)} \cup {new}

\* put on a saver bound to user, at time tm; checkpoint is [id, data].
Saver_put(d, user, config, checkpoint, metadata, tm) ==
    LET row == [thread_id |-> config.thread_id,
                checkpoint_ns |-> config.checkpoint_ns,
                checkpoint_id |-> checkpoint.id,
                user_id |-> user,
                parent_checkpoint_id |-> config.checkpoint_id,
                checkpoint |-> PickleDumps(checkpoint),
                metadata |-> JsonDumps(metadata),
                created_at |-> tm]
    IN [state |-> [d EXCEPT !.checkpoints = InsertOrReplaceRow(d.checkpoints, row)],
        ret |-> Config(config.thread_id, config.checkpoint_ns, checkpoint.id)]

\* PRIMARY KEY (thread_id, checkpoint_ns, checkpoint_id, task_id, idx)
WriteKeyOf(w) == <<w.thread_id, w.checkpoint_ns, w.checkpoint_id, w.task_id, w.idx>>

\* put_writes: one INSERT OR REPLACE INTO checkpoint_writes per (channel, value)
\* of writes, idx counting from 0; created_at is the column's default,
\* CURRENT_TIMESTAMP. The table has no user_id column. Returns None.
RECURSIVE InsertWrites(_, _, _, _, _, _)
InsertWrites(rows, config, writes, task_id, tm, n) ==
    IF n > Len(writes) THEN rows
    ELSE LET new == [thread_id |-> config.thread_id,
                     checkpoint_ns |-> config.checkpoint_ns,
                     checkpoint_id |-> config.checkpoint_id,
                     task_id |-> task_id,
                     idx |-> n - 1,
                     channel |-> writes[n][1],
                     value |-> PickleDumps(writes[n][2]),
                     created_at |-> CurrentTimestamp(tm)]
         IN InsertWrites({w \in rows : WriteKeyOf(w) # WriteKeyOf(new)} \cup {new},
                         config, writes, task_id, tm, n + 1)

Saver_put_writes(d, user, config, writes, task_id, tm) ==
    [state |-> [d EXCEPT !.writes = InsertWrites(d.writes, config, writes, task_id, tm, 1)],
     ret |-> None]

\* cleanup_old_checkpoints: cutoff_date = datetime.now() - timedelta(days);
\* DELETE FROM checkpoint_writes / checkpoints WHERE created_at < cutoff_date,
\* with no user_id condition. checkpoint_writes.created_at holds whole seconds
\* (taken in the clock's own time zone).
Saver_cleanup_old_checkpoints(d, user, days, tm) ==
    LET cutoff_date == tm - days * TicksPerDay
    IN [state |-> [checkpoints |-> {r \in d.checkpoints : ~(r.created_at < cutoff_date)},
                   writes |-> {w \in d.writes :
                                 ~(w.created_at * TicksPerSecond < cutoff_date)}],
        ret |-> None]

\* CheckpointTuple(config, checkpoint, metadata, parent_config) built from a row
CheckpointTuple(config, row) ==
    [config |-> config,
     checkpoint |-> PickleLoads(row.checkpoint),
     metadata |-> JsonLoads(row.metadata),
     parent_config |-> IF row.parent_checkpoint_id # None
                       THEN [thread_id |-> row.thread_id,
                             checkpoint_id |-> row.parent_checkpoint_id]
                       ELSE [thread_id |-> None, checkpoint_id |-> None]]

\* The rows ORDER BY created_at DESC LIMIT 1 may deliver.
NewestRows(rows) == {r \in rows : \A q \in rows : q.created_at <= r.created_at}

\* Mutant: get_tuple without the user_id condition.
Saver_get_tuple_any_user(d, user, config) ==
    LET rows == {r \in d.checkpoints :
                    /\ r.thread_id = config.thread_id
                    /\ r.checkpoint_ns = config.checkpoint_ns
                    /\ config.checkpoint_id # None =>
                          r.checkpoint_id = config.checkpoint_id}
    IN IF rows = {} THEN {<<>>}
       ELSE {<<CheckpointTuple(config, r)>> : r \in NewestRows(rows)}

\* The values get_tuple may return: <<>> for None, <<tuple>> otherwise.
Saver_get_tuple(d, user, config) ==
    LET rows == {r \in d.checkpoints :
                    /\ r.thread_id = config.thread_id
                    /\ r.checkpoint_ns = config.checkpoint_ns
                    /\ r.user_id = user
                    /\ config.checkpoint_id # None =>
                          r.checkpoint_id = config.checkpoint_id}
    IN IF rows = {} THEN {<<>>}
       ELSE {<<CheckpointTuple(config, r)>> : r \in NewestRows(rows)}

\* All orders of a set of rows by field created_at descending.
ByCreatedAtDesc(rows) ==
    {s \in [1..Cardinality(rows) -> rows] :
        /\ \A i, j \in 1..Cardinality(rows) : i # j => s[i] # s[j]
        /\ \A i, j \in 1..Cardinality(rows) :
              i < j => s[i].created_at >= s[j].created_at}

\* The lists list() may yield. config.thread_id / config.checkpoint_ns are None
\* when the key is not in the config, before is a checkpoint_id or None;
\* "if limit:" adds no LIMIT for limit = None and for limit = 0 alike, and 0
\* stands for both here.
Saver_list(d, user, config, before, limit) ==
    LET mine == {r \in d.checkpoints :
                    /\ r.user_id = user
                    /\ config.thread_id # None => r.thread_id = config.thread_id
                    /\ config.checkpoint_ns # None => r.checkpoint_ns = config.checkpoint_ns}
        \* (SELECT created_at FROM checkpoints WHERE checkpoint_id = ?): the
        \* created_at of one of the rows of that id, NULL when there is none
        bounds == {r.created_at : r \in {q \in d.checkpoints : q.checkpoint_id = before}}
        selections ==
            IF before = None THEN {mine}
            ELSE IF bounds = {} THEN {{}}
            ELSE {{r \in mine : r.created_at < b} : b \in bounds}
    IN UNION {{[i \in 1..(IF limit # 0 /\ limit < Len(o)
                          THEN limit ELSE Len(o)) |->
                   CheckpointTuple(Config(o[i].thread_id, o[i].checkpoint_ns,
                                          o[i].checkpoint_id), o[i])]
               : o \in ByCreatedAtDesc(sel)} : sel \in selections}

\* GROUP BY thread_id over the user's rows: thread_id, MAX(created_at),
\* COUNT(DISTINCT checkpoint_id)
ThreadGroups(d, user) ==
    LET mine == {r \in d.checkpoints : r.user_id = user}
    IN {[thread_id |-> t,
         last_updated |-> CHOOSE m \in {r.created_at : r \in {q \in mine : q.thread_id = t}} :
                             \A r \in {q \in mine : q.thread_id = t} : r.created_at <= m,
         message_count |-> Cardinality({r.checkpoint_id : r \in {q \in mine : q.thread_id = t}})]
        : t \in {r.thread_id : r \in mine}}

\* ORDER BY last_updated DESC LIMIT ?
GroupsDesc(groups, limit) ==
    {Take(s, limit) :
        s \in {o \in [1..Cardinality(groups) -> groups] :
                 /\ \A i, j \in 1..Cardinality(groups) : i # j => o[i] # o[j]
                 /\ \A i, j \in 1..Cardinality(groups) :
                       i < j => o[i].last_updated >= o[j].last_updated}}

\* The lists get_threads_with_counts may yield.
Saver_get_threads_with_counts(d, user, limit) == GroupsDesc(ThreadGroups(d, user), limit)

\* The lists get_threads may yield: the same query without the count column.
Saver_get_threads(d, user, limit) ==
    {[i \in 1..Len(s) |-> [thread_id |-> s[i].thread_id, last_updated |-> s[i].last_updated]]
        : s \in GroupsDesc(ThreadGroups(d, user), limit)}

Saver_get_thread_message_count(d, user, t) ==
    Cardinality({r.checkpoint_id :
                    r \in {q \in d.checkpoints : q.thread_id = t /\ q.user_id = user}})

\* ------------------------------------------------------- saver actions

SCall(op, user, args, ret) == [op |-> op, user |-> user, args |-> args, ret |-> ret]

SaverInit ==
    /\ savNow = 0
    /\ nPuts = 0
    /\ db = DbInit
    /\ slast = SCall("init", "", <<>>, <<>>)
    /\ puts = <<>>

SaverTick ==
    /\ savNow < MaxSaverTime
    /\ savNow' = savNow + 1
    /\ slast' = SCall("tick", "", <<>>, <<>>)
    /\ UNCHANGED <<nPuts, db, puts>>
    /\ UNCHANGED <<bvars, xvars>>

Put(user, config, id, content) ==
    /\ nPuts < MaxPuts
    /\ nPuts' = nPuts + 1
    /\ LET checkpoint == [id |-> id, data |-> content.checkpoint]
           p == Saver_put(db, user, config, checkpoint, content.metadata, savNow)
           key == <<config.thread_id, config.checkpoint_ns, id>>
       IN /\ db' = p.state
          /\ slast' = SCall("put", user, <<config, checkpoint, content.metadata>>, p.ret)
          /\ puts' = [k \in (DOMAIN puts) \cup {key} |->
                        IF k = key
                        THEN [user |-> user, checkpoint |-> checkpoint,
                              metadata |-> content.metadata,
                              parent |-> config.checkpoint_id,
                              at |-> savNow]
                        ELSE puts[k]]
    /\ UNCHANGED savNow
    /\ UNCHANGED <<bvars, xvars>>

GetTuple(user, t, ns, id) ==
    /\ \E r \in Saver_get_tuple(db, user, Config(t, ns, id)) :
          slast' = SCall("get_tuple", user, <<Config(t, ns, id)>>, r)
    /\ UNCHANGED <<savNow, nPuts, db, puts>>
    /\ UNCHANGED <<bvars, xvars>>

List(user, config, before, limit) ==
    /\ \E r \in Saver_list(db, user, config, before, limit) :
          slast' = SCall("list", user, <<config, before, limit>>, r)
    /\ UNCHANGED <<savNow, nPuts, db, puts>>
    /\ UNCHANGED <<bvars, xvars>>

GetThreads(user, limit) ==
    /\ \E r \in Saver_get_threads(db, user, limit) :
          slast' = SCall("get_threads", user, <<limit>>, r)
    /\ UNCHANGED <<savNow, nPuts, db, puts>>
    /\ UNCHANGED <<bvars, xvars>>

GetThreadsWithCounts(user, limit) ==
    /\ \E r \in Saver_get_threads_with_counts(db, user, limit) :
          slast' = SCall("get_threads_with_counts", user, <<limit>>, r)
    /\ UNCHANGED <<savNow, nPuts, db, puts>>
    /\ UNCHANGED <<bvars, xvars>>

GetThreadMessageCount(user, t) ==
    /\ slast' = SCall("get_thread_message_count", user, <<t>>,
                      Saver_get_thread_message_count(db, user, t))
    /\ UNCHANGED <<savNow, nPuts, db, puts>>
    /\ UNCHANGED <<bvars, xvars>>

\* What put_writes is called with: the config of a checkpoint, the writes, a task id.
WriteTargets == {Config("t1", "", "id1")}
WriteSeqs == {<< <<"ch", "v1">> >>, << <<"ch", "v2">> >>}

PutWrites(user, config, writes, task_id) ==
    /\ LET p == Saver_put_writes(db, user, config, writes, task_id, savNow)
       IN /\ db' = p.state
          /\ slast' = SCall("put_writes", user, <<config, writes, task_id>>, <<>>)
    /\ UNCHANGED <<savNow, nPuts, puts>>
    /\ UNCHANGED <<bvars, xvars>>

CleanupOldCheckpoints(user, days) ==
    /\ LET p == Saver_cleanup_old_checkpoints(db, user, days, savNow)
       IN /\ db' = p.state
          /\ slast' = SCall("cleanup_old_checkpoints", user, <<days>>, <<>>)
    /\ UNCHANGED <<savNow, nPuts, puts>>
    /\ UNCHANGED <<bvars, xvars>>

SaverNext ==
    \/ SaverTick
    \/ \E user \in SaverUsers, config \in WriteTargets, writes \in WriteSeqs :
          PutWrites(user, config, writes, "task1")
    \/ \E user \in SaverUsers, days \in Days : CleanupOldCheckpoints(user, days)
    \/ \E user \in SaverUsers, target \in PutTargets, content \in Contents :
          Put(user, target.config, target.id, content)
    \/ \E user \in SaverUsers, target \in ReadTargets,
          id \in CheckpointIds \cup {None} :
             GetTuple(user, target[1], target[2], id)
    \/ \E user \in SaverUsers, config \in ListConfigs,
          before \in {None, "id2"}, limit \in {0, 1} :
             List(user, config, before, limit)
    \/ \E user \in SaverUsers, limit \in {1, 2} : GetThreads(user, limit)
    \/ \E user \in SaverUsers, limit \in {1, 2} : GetThreadsWithCounts(user, limit)
    \/ \E user \in SaverUsers, t \in Threads : GetThreadMessageCount(user, t)

\* ------------------------------------- thread_config, ThreadStateManager

\* A string is the sequence of its pieces; the pieces the code looks for:
Pieces == {"threads", ".db", ".sqlite", "SQLite", "database.windows.net",
           "postgresql://", "cosmos"}
MaxPieces == 2

\* DATABASE_CONNECTION_STRING: "" when unset, else a string of pieces
RECURSIVE StringsUpTo(_)
StringsUpTo(n) ==
    IF n = 0 THEN {<<>>}
    ELSE StringsUpTo(n - 1) \cup
         {Append(str, c) : str \in {x \in StringsUpTo(n - 1) : Len(x) = n - 1}, c \in Pieces}
ConnectionStrings == StringsUpTo(MaxPieces)

\* THREAD_MANAGE_CONNECTION: unset, or one of these values
ManageValues == {"unset", "true", "TRUE", "false"}

\* str.lower() of a piece
Lower(c) == IF c = "SQLite" THEN "sqlite" ELSE IF c = "TRUE" THEN "true" ELSE c

\* the substrings looked for that a lower-case piece holds
Holds(c) == IF c = ".sqlite" THEN {".sqlite", "sqlite"} ELSE {c}

\* sub in str.lower()
InLower(sub, str) == \E i \in 1..Len(str) : sub \in Holds(Lower(str[i]))

\* str.endswith(suffix), on the string as given
EndsWith(str, suffix) == Len(str) > 0 /\ str[Len(str)] = suffix

\* ThreadManagerConfig._detect_database_type
DetectDatabaseType(connection_string) ==
    IF connection_string = <<>> THEN "IN_MEMORY"
    ELSE IF \/ EndsWith(connection_string, ".db")
            \/ EndsWith(connection_string, ".sqlite")
            \/ InLower("sqlite", connection_string) THEN "SQLITE"
    ELSE IF \/ InLower("database.windows.net", connection_string)
            \/ InLower("sql.azuresynapse.net", connection_string) THEN "SQL_AZURE"
    ELSE IF \/ InLower("postgresql://", connection_string)
            \/ InLower("postgres://", connection_string) THEN "POSTGRESQL"
    ELSE IF \/ InLower("documents.azure.com", connection_string)
            \/ InLower("cosmos", connection_string) THEN "COSMOS_DB"
    ELSE "SQLITE"

\* ThreadConfig, with the fields the manager reads
ThreadConfig(database_type, connection_string, table_name) ==
    [database_type |-> database_type,
     connection_string |-> connection_string,
     table_name |-> table_name]

\* ThreadManagerConfig._load_config
LoadConfigFrom(env) ==
    LET thread_manage_connection ==
            Lower(IF env.manage = "unset" THEN "false" ELSE env.manage)
    IN IF thread_manage_connection # "true"
       THEN ThreadConfig("IN_MEMORY", <<"memory://">>, "langgraph_threads")
       ELSE ThreadConfig(DetectDatabaseType(env.conn), env.conn, "langgraph_threads")

\* ThreadManagerConfig.should_persist_threads
ShouldPersistThreads(cfg) == cfg.database_type # "IN_MEMORY"

\* ThreadManagerConfig.get_checkpointer_config()["type"]
CheckpointerConfigType(cfg) ==
    IF cfg.database_type = "IN_MEMORY" THEN "memory" ELSE "persistent"

\* A ThreadStateManager, or the failure of its construction
Manager(status, backend, db_path, checkpointer) ==
    [status |-> status, backend |-> backend, db_path |-> db_path,
     checkpointer |-> checkpointer]
NoManager == Manager("none", None, <<>>, None)

\* Mutant: a SQLite backend for every persistent database type.
CreateBackendForPersistent(cfg) ==
    IF cfg.database_type # "IN_MEMORY"
    THEN [backend |-> "SQLiteStateBackend",
          db_path |-> IF EndsWith(cfg.connection_string, ".db")
                      THEN cfg.connection_string
                      ELSE Append(cfg.connection_string, ".db")]
    ELSE [backend |-> "InMemoryStateBackend", db_path |-> <<>>]

\* ThreadStateManager._create_backend
CreateBackend(cfg) ==
    IF cfg.database_type = "SQLITE"
    THEN [backend |-> "SQLiteStateBackend",
          db_path |-> IF EndsWith(cfg.connection_string, ".db")
                      THEN cfg.connection_string
                      ELSE Append(cfg.connection_string, ".db")]
    ELSE IF cfg.database_type = "IN_MEMORY"
    THEN [backend |-> "InMemoryStateBackend", db_path |-> <<>>]
    ELSE [backend |-> "InMemoryStateBackend", db_path |-> <<>>]

\* ThreadStateManager._create_checkpointer: a MemorySaver on both branches
CreateCheckpointer(cfg) ==
    IF cfg.database_type = "SQLITE" THEN "MemorySaver" ELSE "MemorySaver"

\* Where a backend or a checkpointer keeps its data.
PersistentStores == {"SQLiteStateBackend", "SQLiteCheckpointSaver"}

ManagerInitOf(env) ==
    /\ menv = env
    /\ mcfg = <<>>
    /\ mgr = NoManager

\* thread_config = ThreadManagerConfig(): the module's global, loaded on import
LoadConfig ==
    /\ mcfg = <<>>
    /\ mcfg' = <<LoadConfigFrom(menv)>>
    /\ UNCHANGED <<menv, mgr>>
    /\ UNCHANGED <<bvars, svars, cvars>>

\* get_state_manager(): ThreadStateManager(get_thread_config()), built once.
CreateManager ==
    /\ mcfg # <<>>
    /\ mgr.status = "none"
    /\ LET b == CreateBackend(mcfg[1])
       IN mgr' = Manager("built", b.backend, b.db_path, CreateCheckpointer(mcfg[1]))
    /\ UNCHANGED <<menv, mcfg>>
    /\ UNCHANGED <<bvars, svars, cvars>>

\* SQLiteStateBackend.__init__ opens the database file (_init_database): when
\* sqlite3.connect or the CREATE TABLE fails, the construction raises.
CreateManagerFails ==
    /\ mcfg # <<>>
    /\ mgr.status = "none"
    /\ CreateBackend(mcfg[1]).backend = "SQLiteStateBackend"
    /\ mgr' = Manager("raised", None, <<>>, None)
    /\ UNCHANGED <<menv, mcfg>>
    /\ UNCHANGED <<bvars, svars, cvars>>

ManagerNext ==
    \/ LoadConfig
    \/ CreateManager
    \/ CreateManagerFails

\* ------------------------------------------ lab05 snowflake_connection

\* An account string is the sequence of its dot-separated labels; <<>> stands
\* for None (the variable is unset, the connection string names no host).
Labels == {"acct", "ACCT", "snowflakecomputing", "com"}
MaxLabels == 6
MaxConnects == 2

RECURSIVE AccountsUpTo(_)
AccountsUpTo(n) ==
    IF n = 0 THEN {<<>>}
    ELSE AccountsUpTo(n - 1) \cup
         {Append(a, c) : a \in {x \in AccountsUpTo(n - 1) : Len(x) = n - 1}, c \in Labels}

\* '.snowflakecomputing.com'
Suffix == <<"snowflakecomputing", "com">>

\* '.snowflakecomputing.com' starts before label i of account
SuffixAt(account, i) ==
    /\ i >= 2
    /\ i + 1 <= Len(account)
    /\ account[i] = Suffix[1]
    /\ account[i + 1] = Suffix[2]

\* account.endswith('.snowflakecomputing.com')
EndsWithSuffix(account) == SuffixAt(account, Len(account) - 1)

\* '.snowflakecomputing.com' in account
ContainsSuffix(account) == \E i \in 1..Len(account) : SuffixAt(account, i)

\* account.replace('.snowflakecomputing.com', ''): every occurrence, from the left
RECURSIVE ReplaceFrom(_, _)
ReplaceFrom(account, i) ==
    IF i > Len(account) THEN <<>>
    ELSE IF SuffixAt(account, i) THEN ReplaceFrom(account, i + 2)
    ELSE <<account[i]>> \o ReplaceFrom(account, i + 1)
RemoveSuffixes(account) == ReplaceFrom(account, 1)

\* Mutant: the account returned as given.
KeepAccountFormat(account) == account

\* SnowflakeConnection._normalize_account_format
NormalizeAccountFormat(account) ==
    IF account = <<>> THEN account
    ELSE IF EndsWithSuffix(account) THEN RemoveSuffixes(account)
    ELSE account

\* urlparse(conn_string).hostname: the host, in lower case
Hostname(account) ==
    [i \in 1..Len(account) |-> IF account[i] = "ACCT" THEN "acct" ELSE account[i]]

\* _parse_connection_config: the 'account' connection parameter, from the
\* connection string when SNOWFLAKE_CONNECTION_STRING is set, else from
\* SNOWFLAKE_ACCOUNT
ParseConnectionConfig(env) ==
    IF env.via = "SNOWFLAKE_CONNECTION_STRING"
    THEN NormalizeAccountFormat(Hostname(env.account))
    ELSE NormalizeAccountFormat(env.account)

\* "Remove duplicates while preserving order", empty strings dropped
RECURSIVE Unique(_, _)
Unique(variations, n) ==
    IF n = 0 THEN <<>>
    ELSE LET before == Unique(variations, n - 1)
         IN IF variations[n] # <<>> /\ \A i \in 1..Len(before) : before[i] # variations[n]
            THEN Append(before, variations[n])
            ELSE before

UniqueVariations(variations) == Unique(variations, Len(variations))

\* SnowflakeConnection._get_account_format_variations
GetAccountFormatVariations(base_account) ==
    IF base_account = <<>> THEN <<>>
    ELSE LET forms == IF ContainsSuffix(base_account)
                      THEN <<RemoveSuffixes(base_account), base_account>>
                      ELSE <<base_account, base_account \o Suffix>>
             more == IF /\ Len(base_account) >= 2
                        /\ ~EndsWithSuffix(base_account)
                        /\ Len(base_account) >= 3
                     THEN <<<<base_account[1]>>>>
                     ELSE <<>>
         IN UniqueVariations(forms \o more)

\* A SnowflakeConnection: _connection (0 for None, else the connection's
\* number) and _connection_params['account']
Instance(connection, account) == [connection |-> connection, account |-> account]

\* SnowflakeConnection(): __init__
NewInstance(env) == Instance(0, ParseConnectionConfig(env))

\* A call and its outcome: result is "returned" or "raised", conn the
\* connection returned (0: None), attempts the account formats tried in order,
\* failed the number of attempts that failed, info the account reported.
CCall(op, result, conn, attempts, failed, info) ==
    [op |-> op, result |-> result, conn |-> conn, attempts |-> attempts,
     failed |-> failed, info |-> info]

\* Mutant: the last format of the list is recorded as the account.
GetConnectionRecordsLast(inst, k, n) ==
    LET account_formats == GetAccountFormatVariations(inst.account)
    IN IF inst.connection # 0 \/ account_formats = <<>>
       THEN [inst |-> inst, n |-> n,
             call |-> CCall("get_connection", "returned", inst.connection, <<>>, 0, <<>>)]
       ELSE IF k = 0
       THEN [inst |-> inst, n |-> n,
             call |-> CCall("get_connection", "raised", 0, account_formats,
                            Len(account_formats), <<>>)]
       ELSE [inst |-> Instance(n + 1, account_formats[Len(account_formats)]), n |-> n + 1,
             call |-> CCall("get_connection", "returned", n + 1,
                            SubSeq(account_formats, 1, k), k - 1, <<>>)]

\* Mutant: a connection is made on every call, the cached one ignored.
GetConnectionAlwaysConnects(inst, k, n) ==
    LET account_formats == GetAccountFormatVariations(inst.account)
    IN IF account_formats = <<>> \/ k = 0
       THEN [inst |-> inst, n |-> n,
             call |-> CCall("get_connection", "returned", inst.connection, <<>>, 0, <<>>)]
       ELSE [inst |-> Instance(n + 1, account_formats[k]), n |-> n + 1,
             call |-> CCall("get_connection", "returned", n + 1,
                            SubSeq(account_formats, 1, k), k - 1, <<>>)]

\* SnowflakeConnection.get_connection on instance inst, when the first k - 1
\* attempts fail and attempt k connects (k = 0: every attempt fails).
GetConnection(inst, k, n) ==
    IF inst.connection # 0
    THEN [inst |-> inst, n |-> n,
          call |-> CCall("get_connection", "returned", inst.connection, <<>>, 0, <<>>)]
    ELSE LET account_formats == GetAccountFormatVariations(inst.account)
         IN IF account_formats = <<>>
            THEN [inst |-> inst, n |-> n,
                  call |-> CCall("get_connection", "returned", inst.connection, <<>>, 0, <<>>)]
            ELSE IF k = 0
            THEN [inst |-> inst, n |-> n,
                  call |-> CCall("get_connection", "raised", 0, account_formats,
                                 Len(account_formats), <<>>)]
            ELSE [inst |-> Instance(n + 1, account_formats[k]), n |-> n + 1,
                  call |-> CCall("get_connection", "returned", n + 1,
                                 SubSeq(account_formats, 1, k), k - 1, <<>>)]

\* The environments the connection is configured from.
ConnAccounts ==
    {<<>>, <<"acct">>, <<"acct", "snowflakecomputing", "com">>,
     <<"ACCT", "acct", "acct">>, <<"ACCT", "acct", "acct", "snowflakecomputing", "com">>}
Vias == {"SNOWFLAKE_CONNECTION_STRING", "SNOWFLAKE_ACCOUNT"}

ConnInitOf(env) ==
    /\ cenv = env
    /\ cinst = <<>>
    /\ nConnects = 0
    /\ clast = CCall("init", "returned", 0, <<>>, 0, <<>>)
    /\ closed = {}

\* The module's instance, made on first use.
SharedInstance == IF cinst = <<>> THEN NewInstance(cenv) ELSE cinst[1]

\* get_snowflake_connection()
GetSnowflakeConnection(k) ==
    /\ k <= Len(GetAccountFormatVariations(SharedInstance.account))
    /\ (k # 0 /\ SharedInstance.connection = 0) => nConnects < MaxConnects
    /\ LET g == GetConnection(SharedInstance, k, nConnects)
       IN /\ cinst' = <<g.inst>>
          /\ nConnects' = g.n
          /\ clast' = g.call
    /\ UNCHANGED <<cenv, closed>>
    /\ UNCHANGED <<bvars, svars, mvars>>

\* get_connection_info()
GetConnectionInfo ==
    /\ cinst' = <<SharedInstance>>
    /\ clast' = CCall("get_connection_info", "returned", 0, <<>>, 0, SharedInstance.account)
    /\ UNCHANGED <<cenv, nConnects, closed>>
    /\ UNCHANGED <<bvars, svars, mvars>>

\* SnowflakeConnection.close_connection on the module's instance
CloseConnection ==
    /\ cinst # <<>>
    /\ cinst' = <<Instance(0, cinst[1].account)>>
    /\ clast' = CCall("close_connection", "returned", 0, <<>>, 0, <<>>)
    /\ closed' = IF cinst[1].connection # 0
                 THEN closed \cup {cinst[1].connection} ELSE closed
    /\ UNCHANGED <<cenv, nConnects>>
    /\ UNCHANGED <<bvars, svars, mvars>>

\* A caller closes a connection it received from get_snowflake_connection:
\* conn.close() on the connection object, as test_connection does.
CallerClosesConnection(c) ==
    /\ closed' = closed \cup {c}
    /\ clast' = CCall("conn.close", "returned", c, <<>>, 0, <<>>)
    /\ UNCHANGED <<cenv, cinst, nConnects>>
    /\ UNCHANGED <<bvars, svars, mvars>>

ConnNext ==
    \/ \E k \in 0..3 : GetSnowflakeConnection(k)
    \/ GetConnectionInfo
    \/ CloseConnection
    \/ \E c \in 1..nConnects : CallerClosesConnection(c)

\* Configuring an account and reading the parameters back.
NormalizeNext == GetConnectionInfo

\* ------------------------------------------------------ specifications

Init ==
    /\ BackendInit
    /\ SaverInit
    /\ ManagerInitOf([manage |-> "unset", conn |-> <<>>])
    /\ ConnInitOf([via |-> "SNOWFLAKE_ACCOUNT", account |-> <<>>])

Next == BackendNext

\* The two state backends under every sequence of calls.
Spec == Init /\ [][Next]_vars

\* The checkpoint savers of the users, sharing one database file.
SaverSpec == Init /\ [][SaverNext]_vars

\* The configuration and the state manager, under every environment.
ManagerInit ==
    /\ BackendInit
    /\ SaverInit
    /\ \E manage \in ManageValues, conn \in ConnectionStrings :
          ManagerInitOf([manage |-> manage, conn |-> conn])
    /\ ConnInitOf([via |-> "SNOWFLAKE_ACCOUNT", account |-> <<>>])

ManagerSpec == ManagerInit /\ [][ManagerNext]_vars

\* The shared Snowflake connection, under every outcome of the connection attempts.
ConnInit ==
    /\ BackendInit
    /\ SaverInit
    /\ ManagerInitOf([manage |-> "unset", conn |-> <<>>])
    /\ \E via \in Vias, account \in ConnAccounts :
          ConnInitOf([via |-> via, account |-> account])

ConnSpec == ConnInit /\ [][ConnNext]_vars

\* The account parameter, for every account string configured either way.
NormalizeInit ==
    /\ BackendInit
    /\ SaverInit
    /\ ManagerInitOf([manage |-> "unset", conn |-> <<>>])
    /\ \E via \in Vias, account \in AccountsUpTo(MaxLabels) :
          ConnInitOf([via |-> via, account |-> account])

NormalizeSpec == NormalizeInit /\ [][NormalizeNext]_vars

\* ------------------------------------------------- what the claims read

\* The metadata records a backend holds for thread t.
MemMetaOf(m, t) == {m.metadata[i] : i \in {k \in 1..Len(m.metadata) : m.metadata[k].thread_id = t}}
SqlMetaOf(s, t) == {r \in s.metadata : r.thread_id = t}

\* The checkpoints the in-memory backend holds for thread t.
MemCheckpointsOf(m, t) == IF t \in DOMAIN m.checkpoints THEN {m.checkpoints[t]} ELSE {}

\* A limit no smaller than the number of threads.
AllThreads == Cardinality(Threads)

Min(a, b) == IF a < b THEN a ELSE b

\* --------------------------------------------------------------- claims

\* C1: in both backends, whatever save_checkpoint, delete_thread and
\* cleanup_old_threads calls were made by whatever users, every thread_id has at
\* most one metadata record.
C1_OneMetadataPerThread ==
    \A t \in Threads :
        /\ Cardinality(SqlMetaOf(sql, t)) <= 1
        /\ Cardinality({k \in 1..Len(mem.metadata) : mem.metadata[k].thread_id = t}) <= 1

\* C1 witness: a second save on a thread whose metadata was already stored.
C1_Witness ==
    /\ last.op = "save"
    /\ last.sqlRet = TRUE
    /\ \E r \in SqlMetaOf(sql, last.t) : r.message_count = 2
    /\ \E r \in MemMetaOf(mem, last.t) : r.message_count = 1

\* C2 as claimed: in every backend a successful save_checkpoint on t keeps every
\* checkpoint stored for t before it.
C2_Original ==
    [][(last'.op = "save") =>
          /\ (last'.memRet = TRUE) =>
                MemCheckpointsOf(mem, last'.t) \subseteq MemCheckpointsOf(mem', last'.t)
          /\ (last'.sqlRet = TRUE) =>
                SqlCheckpointsOf(sql, last'.t) \subseteq SqlCheckpointsOf(sql', last'.t)
      ]_vars

\* C2 amended: in SQLiteStateBackend a successful save_checkpoint on t adds one
\* checkpoint row for t and keeps every row stored before, and rows disappear
\* only through delete_thread or cleanup_old_threads; InMemoryStateBackend holds
\* one checkpoint per thread, which a save on t replaces by the new one, and the
\* checkpoint held for a thread changes only through a save on that thread,
\* delete_thread or cleanup_old_threads.
C2_CheckpointsAppend ==
    [][/\ (last'.op = "save" /\ last'.sqlRet = TRUE) =>
             /\ sql.checkpoints \subseteq sql'.checkpoints
             /\ Cardinality(sql'.checkpoints) = Cardinality(sql.checkpoints) + 1
             /\ \E r \in sql'.checkpoints \ sql.checkpoints :
                   /\ r.thread_id = last'.t
                   /\ r.user_id = last'.u
                   /\ r.checkpoint_data = JsonDumps(last'.arg)
       /\ ~(sql.checkpoints \subseteq sql'.checkpoints) =>
             last'.op \in {"delete", "cleanup", "api_delete"}
       /\ (last'.op = "save" /\ last'.memRet = TRUE) =>
             /\ MemCheckpointsOf(mem', last'.t) = {last'.arg}
             /\ \A x \in Threads \ {last'.t} :
                   MemCheckpointsOf(mem', x) = MemCheckpointsOf(mem, x)
       /\ \A x \in Threads :
             MemCheckpointsOf(mem', x) # MemCheckpointsOf(mem, x) =>
                \/ last'.op = "save" /\ last'.t = x
                \/ last'.op \in {"delete", "cleanup", "api_delete"}
      ]_vars

\* C2 witness: a second successful save on a thread, after which SQLite holds
\* two checkpoints of it and the in-memory backend the new one.
C2_Witness ==
    /\ last.op = "save"
    /\ last.sqlRet = TRUE
    /\ last.memRet = TRUE
    /\ Cardinality(SqlCheckpointsOf(sql, last.t)) = 2
    /\ MemCheckpointsOf(mem, last.t) = {last.arg}
    /\ \E r \in MemMetaOf(mem, last.t) : r.message_count = 1

\* C3 as claimed: load_checkpoint(t) with an empty user_id returns the
\* checkpoint of the most recent successful save on t when no delete removed a
\* checkpoint of t since (for SQLite: as json writes and reads it back), and None
\* when t has no checkpoint.
C3_Original ==
    (last.op = "load" /\ last.u = "") =>
        /\ hist[last.t].memC # None => last.memRet = hist[last.t].memC
        /\ hist[last.t].sqlC # None =>
              last.sqlRet = JsonLoads(JsonDumps(hist[last.t].sqlC))
        /\ MemCheckpointsOf(mem, last.t) = {} => last.memRet = None
        /\ SqlCheckpointsOf(sql, last.t) = {} => last.sqlRet = None

\* C4 as claimed: load_checkpoint(t, u) with a non-empty u returns None or a
\* checkpoint that was saved with user_id u (the in-memory backend is granted
\* more here than the claim grants: a checkpoint saved with no user_id passes).
C4_Original ==
    (last.op = "load" /\ last.u # "") =>
        /\ last.memRet # None =>
              \/ <<last.u, last.memRet>> \in hist[last.t].saved
              \/ <<"", last.memRet>> \in hist[last.t].saved
        /\ last.sqlRet # None =>
              \E r \in SqlCheckpointsOf(sql, last.t) :
                 r.user_id = last.u /\ JsonLoads(r.checkpoint_data) = last.sqlRet

\* C5: after delete_thread(t) with an empty user_id returned True, the backend
\* holds no metadata and no checkpoint of t (no list_threads result names t,
\* load_checkpoint(t, u) is None for every u), and the metadata and the
\* checkpoints of every other thread are as before the call.
C5_DeleteRemovesThread ==
    [][(last'.op = "delete" /\ last'.u = "") =>
          /\ (last'.memRet = TRUE) =>
                /\ MemMetaOf(mem', last'.t) = {}
                /\ MemCheckpointsOf(mem', last'.t) = {}
                /\ \A u \in Users :
                      /\ Mem_load_checkpoint(mem', last'.t, u) = None
                      /\ LET res == Mem_list_threads(mem', u, AllThreads)
                         IN \A i \in 1..Len(res) : res[i].thread_id # last'.t
                /\ \A x \in Threads \ {last'.t} :
                      /\ MemMetaOf(mem', x) = MemMetaOf(mem, x)
                      /\ MemCheckpointsOf(mem', x) = MemCheckpointsOf(mem, x)
          /\ (last'.sqlRet = TRUE) =>
                /\ SqlMetaOf(sql', last'.t) = {}
                /\ SqlCheckpointsOf(sql', last'.t) = {}
                /\ \A u \in Users :
                      /\ SQLite_load_checkpoint(sql', last'.t, u) = {None}
                      /\ \A res \in SQLite_list_threads(sql', u, AllThreads) :
                            \A i \in 1..Len(res) : res[i].thread_id # last'.t
                /\ \A x \in Threads \ {last'.t} :
                      /\ SqlMetaOf(sql', x) = SqlMetaOf(sql, x)
                      /\ SqlCheckpointsOf(sql', x) = SqlCheckpointsOf(sql, x)
      ]_vars

\* C5 witness: an admin delete of a stored thread, with another thread stored.
C5_Witness ==
    /\ last.op = "delete"
    /\ last.u = ""
    /\ last.memRet = TRUE
    /\ last.sqlRet = TRUE
    /\ last.t \in last.pre.mem \cap last.pre.sql
    /\ \E x \in Threads \ {last.t} :
          /\ MemMetaOf(mem, x) # {}
          /\ SqlCheckpointsOf(sql, x) # {}

\* C6 as claimed: delete_thread(t, u) with a non-empty u, when the metadata of t
\* names another owner (here: another non-empty user_id), leaves the metadata
\* and every checkpoint of t as they were.
C6_Original ==
    [][(last'.op = "delete" /\ last'.u # "") =>
          /\ (\E r \in MemMetaOf(mem, last'.t) : r.user_id \notin {"", last'.u}) =>
                /\ MemMetaOf(mem', last'.t) = MemMetaOf(mem, last'.t)
                /\ MemCheckpointsOf(mem', last'.t) = MemCheckpointsOf(mem, last'.t)
          /\ (\E r \in SqlMetaOf(sql, last'.t) : r.user_id \notin {"", last'.u}) =>
                /\ SqlMetaOf(sql', last'.t) = SqlMetaOf(sql, last'.t)
                /\ SqlCheckpointsOf(sql', last'.t) = SqlCheckpointsOf(sql, last'.t)
      ]_vars

\* The threads cleanup_old_threads(days, u) is to delete from the metadata
\* records metas, at time tm.
OldThreads(metas, days, u, tm) ==
    {r.thread_id : r \in {x \in metas :
        x.last_updated < tm - days * TicksPerDay /\ (u # "" => x.user_id = u)}}

\* C7 as claimed: cleanup_old_threads(days, u) removes the metadata and all the
\* checkpoints of exactly the threads whose last_updated is before now - days
\* (owned by u when u is non-empty), leaves every other thread as it was, and
\* returns how many threads it deleted.
C7_Original ==
    [][(last'.op = "cleanup") =>
          LET memOld == OldThreads(UNION {MemMetaOf(mem, t) : t \in Threads},
                                   last'.arg, last'.u, now)
              sqlOld == OldThreads(sql.metadata, last'.arg, last'.u, now)
          IN /\ \A t \in memOld :
                    MemMetaOf(mem', t) = {} /\ MemCheckpointsOf(mem', t) = {}
             /\ \A t \in Threads \ memOld :
                    /\ MemMetaOf(mem', t) = MemMetaOf(mem, t)
                    /\ MemCheckpointsOf(mem', t) = MemCheckpointsOf(mem, t)
             /\ last'.memRet = Cardinality(memOld)
             /\ \A t \in sqlOld :
                    SqlMetaOf(sql', t) = {} /\ SqlCheckpointsOf(sql', t) = {}
             /\ \A t \in Threads \ sqlOld :
                    /\ SqlMetaOf(sql', t) = SqlMetaOf(sql, t)
                    /\ SqlCheckpointsOf(sql', t) = SqlCheckpointsOf(sql, t)
             /\ last'.sqlRet = Cardinality(sqlOld)
      ]_vars

\* What C8 asks of a list_threads(u, n) result res over the stored records.
ListOK(res, stored, u, n) ==
    LET matching == {r \in stored : u # "" => r.user_id = u}
    IN /\ Len(res) <= n
       /\ Len(res) = Min(n, Cardinality(matching))
       /\ \A i \in 1..Len(res) : res[i] \in matching
       /\ \A i, j \in 1..Len(res) : i # j => res[i].thread_id # res[j].thread_id
       /\ \A i, j \in 1..Len(res) :
             i < j => res[i].last_updated >= res[j].last_updated
       /\ \A r \in matching :
             (\A i \in 1..Len(res) : res[i] # r) =>
                \A i \in 1..Len(res) : res[i].last_updated >= r.last_updated

\* C8: list_threads(u, n) with n >= 0 returns at most n metadata records, the
\* most recently updated first; those of user u only when u is non-empty, of all
\* users when u is empty; and it changes nothing stored.
C8_ListThreads ==
    [][(last'.op = "list") =>
          /\ ListOK(last'.memRet, UNION {MemMetaOf(mem, t) : t \in Threads},
                    last'.u, last'.arg)
          /\ ListOK(last'.sqlRet, sql.metadata, last'.u, last'.arg)
          /\ mem' = mem
          /\ sql' = sql
      ]_vars

\* C8 witness: two threads of different users and ages are stored and
\* list_threads(limit = 1) returned the newer one from both backends.
C8_Witness ==
    /\ last.op = "list"
    /\ last.u = ""
    /\ last.arg = 1
    /\ Cardinality(sql.metadata) = 2
    /\ Len(mem.metadata) = 2
    /\ \E r, q \in sql.metadata :
          r.user_id # q.user_id /\ r.last_updated > q.last_updated
          /\ last.sqlRet = <<r>>
    /\ Len(last.memRet) = 1
    /\ \A i \in 1..Len(mem.metadata) :
          mem.metadata[i].last_updated <= last.memRet[1].last_updated

\* No two rows of the checkpoints table hold the same key.
KeysUnique(rows) == \A r, q \in rows : KeyOf(r) = KeyOf(q) => r = q

\* C9: the checkpoints table holds at most one row per (thread_id,
\* checkpoint_ns, checkpoint_id); a put leaves exactly one row for its key,
\* holding what was put, adds a row only when the key was free and leaves the
\* rows of every other key as they were (so a second put of the same checkpoint
\* leaves the rows the first one left, but for the row's created_at).
C9_OneRowPerKey ==
    [][/\ KeysUnique(db'.checkpoints)
       /\ (slast'.op = "put") =>
             LET config == slast'.args[1]
                 checkpoint == slast'.args[2]
                 metadata == slast'.args[3]
                 key == <<config.thread_id, config.checkpoint_ns, checkpoint.id>>
                 held == {r \in db.checkpoints : KeyOf(r) = key}
                 after == {r \in db'.checkpoints : KeyOf(r) = key}
             IN /\ Cardinality(after) = 1
                /\ \A r \in after :
                      /\ r.user_id = slast'.user
                      /\ PickleLoads(r.checkpoint) = checkpoint
                      /\ r.metadata = JsonDumps(metadata)
                      /\ r.parent_checkpoint_id = config.checkpoint_id
                      /\ r.created_at = savNow
                /\ db'.checkpoints \ after = db.checkpoints \ held
                /\ Cardinality(db'.checkpoints) =
                      Cardinality(db.checkpoints) + (IF held = {} THEN 1 ELSE 0)
                /\ slast'.ret = Config(config.thread_id, config.checkpoint_ns, checkpoint.id)
      ]_vars

\* C9 witness: the second put went to the key of the first, with another
\* checkpoint, and one row is stored.
C9_Witness ==
    /\ slast.op = "put"
    /\ nPuts = 2
    /\ Cardinality(db.checkpoints) = 1
    /\ slast.args[2].data = "k2"
    /\ slast.args[1].checkpoint_id = "id1"

\* The keys whose latest put was made by a saver bound to user.
PutBy(user) == {k \in DOMAIN puts : puts[k].user = user}

\* The checkpoint tuple tup is what was last put for key k.
TupleOfPut(tup, k) ==
    /\ tup.checkpoint = puts[k].checkpoint
    /\ tup.metadata = JsonLoads(JsonDumps(puts[k].metadata))
    /\ tup.parent_config.checkpoint_id = puts[k].parent

\* The checkpoint ids user has put in thread t.
IdsPutBy(user, t) == {k[3] : k \in {x \in PutBy(user) : x[1] = t}}

\* C10: what a saver bound to user u reads comes from checkpoints put by a
\* saver bound to u: get_tuple and list return only tuples u has put (under the
\* thread, namespace and id asked for), get_threads and
\* get_threads_with_counts name only threads u has put a checkpoint in, with
\* the time of one of u's puts, and the counts count no more checkpoint ids
\* than u has put in the thread.
C10_ReadIsolation ==
    /\ (slast.op = "get_tuple") =>
          \A i \in 1..Len(slast.ret) :
             \E k \in PutBy(slast.user) :
                /\ k[1] = slast.args[1].thread_id
                /\ k[2] = slast.args[1].checkpoint_ns
                /\ slast.args[1].checkpoint_id # None => k[3] = slast.args[1].checkpoint_id
                /\ TupleOfPut(slast.ret[i], k)
    /\ (slast.op = "list") =>
          \A i \in 1..Len(slast.ret) :
             LET c == slast.ret[i].config
                 k == <<c.thread_id, c.checkpoint_ns, c.checkpoint_id>>
             IN k \in PutBy(slast.user) /\ TupleOfPut(slast.ret[i], k)
    /\ (slast.op \in {"get_threads", "get_threads_with_counts"}) =>
          \A i \in 1..Len(slast.ret) :
             \E k \in PutBy(slast.user) :
                k[1] = slast.ret[i].thread_id /\ puts[k].at = slast.ret[i].last_updated
    /\ (slast.op = "get_threads_with_counts") =>
          \A i \in 1..Len(slast.ret) :
             slast.ret[i].message_count <=
                Cardinality(IdsPutBy(slast.user, slast.ret[i].thread_id))
    /\ (slast.op = "get_thread_message_count") =>
          slast.ret <= Cardinality(IdsPutBy(slast.user, slast.args[1]))

\* C10 witness: alice asked for the latest checkpoint of a thread and namespace
\* in which bob's checkpoint is at least as new as hers, and got a checkpoint.
C10_Witness ==
    /\ slast.op = "get_tuple"
    /\ slast.user = "alice"
    /\ slast.args[1].checkpoint_id = None
    /\ Len(slast.ret) = 1
    /\ \E a, b \in db.checkpoints :
          /\ a.user_id = "alice"
          /\ b.user_id = "bob"
          /\ a.thread_id = slast.args[1].thread_id
          /\ b.thread_id = a.thread_id
          /\ a.checkpoint_ns = slast.args[1].checkpoint_ns
          /\ b.checkpoint_ns = a.checkpoint_ns
          /\ b.created_at >= a.created_at

\* Everything a saver bound to user can read back from database d: what each
\* read method may return, for every argument in range.
ReadsOf(d, user) ==
    [get_tuple |-> [c \in {Config(x[1], x[2], id) :
                              x \in ReadTargets, id \in CheckpointIds \cup {None}} |->
                       Saver_get_tuple(d, user, c)],
     list |-> [c \in ListConfigs |-> Saver_list(d, user, c, None, 0)],
     get_threads |-> Saver_get_threads(d, user, 2),
     get_threads_with_counts |-> Saver_get_threads_with_counts(d, user, 2),
     get_thread_message_count |->
        [t \in Threads |-> Saver_get_thread_message_count(d, user, t)]]

\* C11 (as stated): a put, put_writes or cleanup_old_checkpoints made through
\* the saver of one user leaves what the saver of every other user reads back
\* as it was.
C11_Original ==
    [][(slast'.op \in {"put", "put_writes", "cleanup_old_checkpoints"}) =>
          \A a \in SaverUsers \ {slast'.user} : ReadsOf(db', a) = ReadsOf(db, a)
      ]_vars

\* (The subscript names slast.op before vars: the two are unchanged in the same
\* steps, and a step that changes the operation is told apart by it.)
\* C12 (as stated): a get_tuple that follows a put of the same user returns,
\* for the config the put returned, the checkpoint and the metadata that were
\* put, with parent_config naming the checkpoint_id of the config given to put
\* (None when it carried none); for the put's thread and namespace without a
\* checkpoint_id it returns the checkpoint of that put, the most recent one;
\* and get_tuple returns None exactly when the user has nothing stored under
\* the thread and namespace (and id) asked for.
C12_Original ==
    [][(slast'.op = "get_tuple") =>
          LET c == slast'.args[1]
              stored == {r \in db.checkpoints :
                            /\ r.user_id = slast'.user
                            /\ r.thread_id = c.thread_id
                            /\ r.checkpoint_ns = c.checkpoint_ns
                            /\ c.checkpoint_id # None => r.checkpoint_id = c.checkpoint_id}
          IN /\ (stored = {}) <=> (slast'.ret = <<>>)
             /\ (slast.op = "put" /\ slast.user = slast'.user /\ c = slast.ret) =>
                   /\ Len(slast'.ret) = 1
                   /\ slast'.ret[1].checkpoint = slast.args[2]
                   /\ slast'.ret[1].metadata = slast.args[3]
                   /\ slast'.ret[1].parent_config.checkpoint_id = slast.args[1].checkpoint_id
             /\ (/\ slast.op = "put"
                 /\ slast.user = slast'.user
                 /\ c = [slast.ret EXCEPT !.checkpoint_id = None]) =>
                   /\ Len(slast'.ret) = 1
                   /\ slast'.ret[1].checkpoint = slast.args[2]
      ]_<<slast.op, vars>>

\* C13: once the configuration is loaded and the manager is constructed, its
\* backend is a SQLiteStateBackend exactly when the database type is SQLITE
\* and an InMemoryStateBackend for IN_MEMORY, POSTGRESQL, SQL_AZURE and
\* COSMOS_DB; a construction fails only for SQLITE.
C13_BackendSelection ==
    /\ (mgr.status = "built") =>
          /\ (mgr.backend = "SQLiteStateBackend") <=> (mcfg[1].database_type = "SQLITE")
          /\ (mcfg[1].database_type \in {"IN_MEMORY", "POSTGRESQL", "SQL_AZURE", "COSMOS_DB"})
                => mgr.backend = "InMemoryStateBackend"
          /\ mgr.backend \in {"SQLiteStateBackend", "InMemoryStateBackend"}
    /\ (mgr.status = "raised") => mcfg[1].database_type = "SQLITE"

\* C13 witness: a manager built for an unimplemented database type, on the
\* in-memory backend.
C13_Witness ==
    /\ mgr.status = "built"
    /\ mcfg[1].database_type = "POSTGRESQL"
    /\ mgr.backend = "InMemoryStateBackend"

\* C14 (as stated): when should_persist_threads() is true, and
\* get_checkpointer_config() reports "persistent", the manager built from the
\* configuration has its backend and its checkpointer in persistent storage.
C14_Original ==
    (/\ mgr.status = "built"
     /\ ShouldPersistThreads(mcfg[1])
     /\ CheckpointerConfigType(mcfg[1]) = "persistent") =>
        /\ mgr.backend \in PersistentStores
        /\ mgr.checkpointer \in PersistentStores

\* The account text as the configured mechanism reads it.
AccountRead(env) ==
    IF env.via = "SNOWFLAKE_CONNECTION_STRING" THEN Hostname(env.account) ELSE env.account

\* X, for an account of the form X.snowflakecomputing.com
ShortOf(account) == SubSeq(account, 1, Len(account) - 2)

C16_Fallback ==
    [][(clast'.op = "get_connection" /\ SharedInstance.connection = 0) =>
          LET formats == GetAccountFormatVariations(SharedInstance.account)
              tried == clast'.attempts
          IN /\ Len(tried) <= Len(formats)
             /\ tried = SubSeq(formats, 1, Len(tried))
             /\ \A i, j \in 1..Len(tried) : i # j => tried[i] # tried[j]
             /\ \A i, j \in 1..Len(formats) : i # j => formats[i] # formats[j]
             /\ (clast'.result = "returned" /\ tried # <<>>) =>
                   /\ clast'.failed = Len(tried) - 1
                   /\ clast'.conn # 0
                   /\ cinst'[1].connection = clast'.conn
                   /\ cinst'[1].account = tried[Len(tried)]
             /\ (tried # <<>> /\ clast'.failed = Len(tried)) =>
                   /\ clast'.result = "raised"
                   /\ tried = formats
                   /\ cinst'[1].connection = 0
             /\ (clast'.result = "raised") => (tried # <<>> /\ clast'.failed = Len(tried))
      ]_vars

\* C16 witness: the first two formats failed and the third connected.
C16_Witness ==
    /\ clast.op = "get_connection"
    /\ Len(clast.attempts) = 3
    /\ clast.failed = 2
    /\ clast.result = "returned"
    /\ cinst[1].account = <<"acct">>

\* C17 (as stated): get_connection returns an established connection or
\* raises; it never returns None.
C17_Original ==
    (clast.op = "get_connection" /\ clast.result = "returned") => clast.conn # 0

\* C18: the module keeps one SnowflakeConnection, which get_connection_info
\* reports on and get_snowflake_connection connects; while it holds a
\* connection, get_snowflake_connection returns that connection and connects
\* nothing, and only close_connection takes the connection away.
C18_Singleton ==
    [][/\ cinst # <<>> =>
             /\ cinst' # <<>>
             /\ (clast'.op = "get_connection_info") =>
                   (cinst' = cinst /\ clast'.info = cinst[1].account)
             /\ (cinst'[1].account # cinst[1].account) =>
                   (clast'.op = "get_connection" /\ cinst[1].connection = 0
                    /\ clast'.conn # 0)
       /\ (cinst # <<>> /\ cinst[1].connection # 0) =>
             /\ (clast'.op = "get_connection") =>
                   /\ clast'.result = "returned"
                   /\ clast'.conn = cinst[1].connection
                   /\ clast'.attempts = <<>>
                   /\ nConnects' = nConnects
                   /\ cinst' = cinst
             /\ (cinst'[1].connection # cinst[1].connection) =>
                   (clast'.op = "close_connection" /\ cinst'[1].connection = 0)
      ]_vars

\* C18 witness: a second connection was made after a close, and a later
\* get_snowflake_connection returned it from the cache.
C18_Witness ==
    /\ clast.op = "get_connection"
    /\ clast.attempts = <<>>
    /\ clast.conn = 2
    /\ nConnects = 2

\* What C19 asks of the threads of a GET /threads response: they are what is
\* left of the n most recently updated stored threads, in that order, once the
\* threads without messages are dropped when include_empty is false.
ApiListOK(resp, stored, n, include_empty) ==
    /\ resp.status = 200
    /\ resp.total = Len(resp.threads)
    /\ Len(resp.threads) <= n
    /\ \A i \in 1..Len(resp.threads) :
          /\ \E r \in stored : resp.threads[i] = ThreadResponse(r)
          /\ ~include_empty => resp.threads[i].message_count > 0
    /\ \A i, j \in 1..Len(resp.threads) :
          i < j => resp.threads[i].last_updated >= resp.threads[j].last_updated
    /\ \A r \in stored :
          (include_empty \/ r.message_count > 0) =>
             \/ \E i \in 1..Len(resp.threads) : resp.threads[i].thread_id = r.thread_id
             \/ Cardinality({q \in stored : q.last_updated >= r.last_updated}) > n

\* C19 (as stated): GET /threads with limit n answers with the threads stored
\* in the backend, of all users, most recently updated first and at most n of
\* them, total being their number; include_empty=false leaves out the threads
\* whose message_count is 0.
C19_Original ==
    (last.op = "api_list") =>
        /\ ApiListOK(last.memRet, UNION {MemMetaOf(mem, t) : t \in Threads},
                     last.arg.limit, last.arg.include_empty)
        /\ ApiListOK(last.sqlRet, sql.metadata, last.arg.limit, last.arg.include_empty)

\* C20 (as stated): DELETE /threads/{thread_id} answers 404 when no thread of
\* that id is stored, and "deleted" only when a stored thread was removed.
C20_Original ==
    (last.op = "api_delete") =>
        /\ (last.t \notin last.pre.mem) => last.memRet.status = 404
        /\ (last.t \notin last.pre.sql) => last.sqlRet.status = 404
        /\ (last.memRet.body = "deleted") =>
              (last.t \in last.pre.mem /\ last.t \notin MemThreads(mem))
        /\ (last.sqlRet.body = "deleted") =>
              (last.t \in last.pre.sql /\ last.t \notin SqlThreads(sql))

\* ---------------------------------------------------------------- C21

\* C21: when SQLiteStateBackend.save_checkpoint returns False, the metadata
\* rows (user_id, last_updated, message_count) and the checkpoint rows of every
\* thread are what they were before the call.
C21_FailedSaveUnchanged ==
    [][(last'.op = "save" /\ last'.sqlRet = FALSE) =>
          /\ sql'.metadata = sql.metadata
          /\ sql'.checkpoints = sql.checkpoints
      ]_vars

\* C21 witness: a save by another user that failed on the duplicate
\* (thread_id, checkpoint_id) key, the thread's metadata row still naming the
\* first user with message_count 1.
C21_Witness ==
    /\ last.op = "save"
    /\ last.sqlRet = FALSE
    /\ \E r \in sql.metadata :
          /\ r.thread_id = last.t
          /\ r.user_id # last.u
          /\ r.message_count = 1
    /\ Cardinality(SqlCheckpointsOf(sql, last.t)) = 1

\* ---------------------------------------------------------------- C22

\* The message_count each backend reports for thread t through list_threads:
\* <<>> when the backend lists no such thread.
MemMessageCount(m, t) ==
    IF MetaHas(m.metadata, t) THEN <<MetaGet(m.metadata, t).message_count>> ELSE <<>>

SqlMessageCount(s, t) ==
    LET rows == {r \in s.metadata : r.thread_id = t}
    IN IF rows = {} THEN <<>> ELSE <<(CHOOSE r \in rows : TRUE).message_count>>

\* C22 as claimed: after the same calls the two backends report the same
\* message_count for every thread, and the count follows the successful saves:
\* 1 after the save that creates the thread, one more after each later save.
C22_Original ==
    [][/\ \A t \in Threads : MemMessageCount(mem', t) = SqlMessageCount(sql', t)
       /\ (last'.op = "save" /\ last'.memRet = TRUE /\ last'.sqlRet = TRUE) =>
             /\ MemMessageCount(mem', last'.t) =
                   IF MemMessageCount(mem, last'.t) = <<>> THEN <<1>>
                   ELSE <<MemMessageCount(mem, last'.t)[1] + 1>>
             /\ SqlMessageCount(sql', last'.t) =
                   IF SqlMessageCount(sql, last'.t) = <<>> THEN <<1>>
                   ELSE <<SqlMessageCount(sql, last'.t)[1] + 1>>
      ]_vars

\* ---------------------------------------------------------------- C23

\* C23 as claimed: after any get_snowflake_connection calls and callers closing
\* the connection they received, the connection a get_snowflake_connection call
\* returns is open.
C23_Original ==
    (clast.op = "get_connection" /\ clast.result = "returned" /\ clast.conn # 0) =>
        clast.conn \notin closed

====
